---- MODULE Spec2Model ----
(***************************************************************************)
(* The Artify REST server (connectdipta/artify-server).                    *)
(*                                                                         *)
(* The repository holds three versions of the same Express server:        *)
(*   "v1"  src/index.js            (the file `node index.js` runs)         *)
(*   "v2"  src/readme.md:97-505    (listing with verifyFirebaseToken)      *)
(*   "v3"  src/readme.md:507-712   (listing with likes/favorites, no auth) *)
(* One behaviour of the model runs one version (variable `version`).       *)
(*                                                                         *)
(* State: the two MongoDB collections, the lazily set `db` handle, and     *)
(* the requests in flight, each at its await point.                        *)
(***************************************************************************)
EXTENDS Integers, FiniteSets, Sequences, TLC

(* ------------------------------ bounds -------------------------------- *)
MaxArt == 1
MaxFav == 1
MaxInFlight == 2
MaxLikes == 2

(* --------------------------- value domains ---------------------------- *)
Versions == {"v1", "v2", "v3"}
Emails == {"alice", "bob"}
NoCred == "none"
BadCred == "bad"
\* a valid ID token of user u is written u
Creds == {NoCred, BadCred} \cup Emails
Undefined == "undefined"
Null == "null"
Slots == 1..MaxInFlight
\* new Date(): the instant of the call; the model has one
Now == "now"
\* path / body identifiers as the client sends them: 0 stands for every
\* string that is not a 24-hex ObjectId ("not-a-valid-id"), n >= 1 for the
\* hex string of ObjectId n
IdStrings == 0..MaxArt
FavIdStrings == 0..MaxFav
EmptyDoc == [f \in {} |-> ""]

VARIABLES version, firebaseAppInitialized, db,
          artworks, favorites, nextArt, nextFav, reqs, hist, favHist

vars == <<version, firebaseAppInitialized, db,
          artworks, favorites, nextArt, nextFav, reqs, hist, favHist>>

config == <<version, firebaseAppInitialized>>
store == <<artworks, favorites, nextArt, nextFav>>
\* history variables: what the server persisted when it created a record
ghost == <<hist, favHist>>

(* ------------------------- JavaScript helpers ------------------------- *)
Get(d, f) == IF f \in DOMAIN d THEN d[f] ELSE Undefined

Truthy(v) == v # Undefined /\ v # Null /\ v # ""

Or(v, w) == IF Truthy(v) THEN v ELSE w

\* Object.assign-like overwrite: the fields of p replace those of d
Merge(d, p) ==
  [f \in DOMAIN d \cup DOMAIN p |-> IF f \in DOMAIN p THEN p[f] ELSE d[f]]

ObjectIdIsValid(s) == s >= 1

\* the decoded ID token of a credential that verifies
DecodedName(u) == IF u = "alice" THEN "Alice" ELSE Undefined

Decoded(u) == [email |-> u, name |-> DecodedName(u), picture |-> Undefined]

(* --------------------------- store primitives ------------------------- *)
MatchDoc(i, d, q) ==
  \A f \in DOMAIN q :
    IF f = "_id" THEN i = q[f]
    ELSE IF q[f] = Undefined THEN (f \notin DOMAIN d) \/ d[f] \in {Undefined, Null}
    ELSE f \in DOMAIN d /\ d[f] = q[f]

Find(coll, q) == {i \in DOMAIN coll : MatchDoc(i, coll[i], q)}

Remove(coll, i) == [j \in DOMAIN coll \ {i} |-> coll[j]]

First(S) == CHOOSE i \in S : \A j \in S : i <= j

SetOne(coll, q, p) ==
  IF Find(coll, q) = {} THEN coll
  ELSE [coll EXCEPT ![First(Find(coll, q))] = Merge(@, p)]

\* a faulty variant of IncLikes: { $set: { likes: 1 } }, the write of a handler that
\* read the counter before anyone liked and stores its own sum
IncLikesLost(d) == Merge(d, [likes |-> 1])

\* { $inc: { likes: 1 } } on one document
IncLikes(d) ==
  Merge(d, [likes |-> IF "likes" \in DOMAIN d THEN d.likes + 1 ELSE 1])

IncOne(coll, q) ==
  IF Find(coll, q) = {} THEN coll
  ELSE [coll EXCEPT ![First(Find(coll, q))] = IncLikes(@)]

\* a faulty variant of DeleteOne: it reports the match and removes nothing
DeleteOneKeep(coll, q) == coll

DeleteOne(coll, q) ==
  IF Find(coll, q) = {} THEN coll ELSE Remove(coll, First(Find(coll, q)))

(* ------------------------------ routing ------------------------------- *)
Routes(v) ==
  CASE v = "v1" -> {"list", "create", "update", "delete"}
    [] v = "v2" -> {"list", "search", "getById", "create", "update", "delete", "like",
                    "addFav", "listFav", "delFav"}
    [] v = "v3" -> {"list", "search", "create", "update", "delete", "like",
                    "addFav", "listFav", "delFav"}

\* routes registered with the verifyFirebaseToken middleware
Protected(v) ==
  IF v = "v2" THEN {"create", "update", "delete", "addFav", "listFav", "delFav"}
  ELSE {}

\* the endpoints the API documents as Private (readme.md:70-89)
PrivateKinds == {"create", "update", "delete", "addFav", "listFav", "delFav"}

\* handlers that call `new ObjectId(req.params.id)` without ObjectId.isValid
\* and outside any try block
UncheckedId(v) ==
  IF v = "v1" THEN {"update", "delete"}
  ELSE IF v = "v3" THEN {"update", "delete", "like", "delFav"}
  ELSE {}

\* handlers that test ObjectId.isValid(req.params.id) before anything else
CheckedId(v) ==
  IF v = "v2" THEN {"getById", "update", "delete", "like", "delFav"} ELSE {}

(* --------------------------- request inputs --------------------------- *)
BaseBody == [title |-> "Sun", imageUrl |-> "u", category |-> "Abstract"]

\* bodies of POST /artworks: complete ones, with or without client-supplied
\* protected fields, and ones lacking a required field
CreateBodies ==
  {Merge(BaseBody, [userEmail |-> "alice"]),
   Merge(BaseBody, [userEmail |-> "bob", likes |-> 1, visibility |-> "Private"]),
   [imageUrl |-> "u", category |-> "Abstract"],
   [title |-> "Sun", imageUrl |-> "", category |-> "Abstract"],
   [title |-> "Sun", imageUrl |-> "u"]}

\* bodies of PUT /artworks/:id
Patches ==
  {[title |-> "Moon"], [userEmail |-> "bob", createdAt |-> "1999", likes |-> 0]}

\* bodies of POST /favorites: v3 reads artworkId and userEmail, v2 artworkId
FavBodies(v) ==
  IF v = "v3"
  THEN {[artworkId |-> i, userEmail |-> u] : i \in IdStrings, u \in Emails}
       \cup {[userEmail |-> "alice"], [artworkId |-> 1]}
  ELSE {[artworkId |-> i] : i \in IdStrings} \cup {EmptyDoc}

\* query strings of GET /favorites: v3 reads userEmail, v2 nothing
Queries(v) ==
  IF v = "v3" THEN {EmptyDoc} \cup {[userEmail |-> u] : u \in Emails}
  ELSE {EmptyDoc}

\* query strings of GET /artworks/search
SearchQueries ==
  {EmptyDoc,
   [category |-> "Abstract"],
   [category |-> "Nature"],
   [title |-> "sun"],
   [title |-> "s.n"],
   [title |-> "oo"],
   [title |-> "oo", userName |-> "ali"],
   [category |-> "Abstract", title |-> "sun", userName |-> "ali"]}

\* the credentials requests carry: the public endpoints are called without
\* one; v1 and v3 never read the Authorization header, and the model lets
\* their clients send none or one signed-in user's token
CredsFor(v, k) ==
  IF k \notin PrivateKinds THEN {NoCred}
  ELSE IF v = "v2" THEN Creds
  ELSE {NoCred, "bob"}

IdsFor(k) ==
  CASE k \in {"getById", "update", "delete", "like"} -> IdStrings
    [] k = "delFav" -> FavIdStrings
    [] OTHER -> {0}

BodiesFor(v, k) ==
  CASE k = "create" -> CreateBodies
    [] k = "update" -> Patches
    [] k = "addFav" -> FavBodies(v)
    [] k = "listFav" -> Queries(v)
    [] k = "search" -> SearchQueries
    [] OTHER -> {EmptyDoc}

Idle ==
  [kind |-> "idle", cred |-> NoCred, id |-> 0, body |-> EmptyDoc,
   pc |-> "idle", status |-> 0, out |-> {}, err |-> "none"]

Pending(k) ==
  Cardinality({s \in Slots : reqs[s].kind = k
                 /\ reqs[s].pc \in {"connecting", "ready"}})

PendingLikes(i) ==
  Cardinality({s \in Slots : reqs[s].kind = "like" /\ reqs[s].id = i
                 /\ reqs[s].pc \in {"connecting", "ready"}})

\* keeps the store-assigned identifiers and the like counters inside the bounds
WithinBudget(k, i) ==
  CASE k = "create" -> nextArt + Pending("create") <= MaxArt
    [] k = "addFav" -> nextFav + Pending("addFav") <= MaxFav
    [] k = "like" ->
         i \in DOMAIN artworks =>
           /\ Get(artworks[i], "likes") + PendingLikes(i) < MaxLikes
           /\ hist[i].liked + PendingLikes(i) < MaxLikes
    [] OTHER -> TRUE

(* ------------------------------ responses ----------------------------- *)
Msg(m) == {[message |-> m]}

\* the request, answered with status st and body o
Done(r, st, o) ==
  [r EXCEPT !.pc = "done", !.status = st, !.out = o]

\* an exception that leaves an async handler: v2 passes it to next(err) and
\* the error middleware answers 500; v1 and v3 have no try/catch, so the
\* promise rejects: Express 5 answers 500 from its default handler, Express 4
\* never answers
Thrown(r, e) ==
  IF version = "v2"
  THEN {[Done(r, 500, Msg("Internal Server Error")) EXCEPT !.err = e]}
  ELSE {[Done(r, 500, Msg("Internal Server Error")) EXCEPT !.err = e],
        [r EXCEPT !.pc = "hung", !.err = e]}

Throw(s, e) == \E r2 \in Thrown(reqs[s], e) : reqs' = [reqs EXCEPT ![s] = r2]

Reply(s, st, o) == reqs' = [reqs EXCEPT ![s] = Done(reqs[s], st, o)]

AtReady(s, k) == reqs[s].pc = "ready" /\ reqs[s].kind = k

(* ------------------------------- Init --------------------------------- *)
Init ==
  /\ version \in Versions
  /\ firebaseAppInitialized \in (IF version = "v2" THEN BOOLEAN ELSE {FALSE})
  /\ db = FALSE
  /\ artworks = EmptyDoc
  /\ favorites = EmptyDoc
  /\ nextArt = 1
  /\ nextFav = 1
  /\ reqs = [s \in Slots |-> Idle]
  /\ hist = EmptyDoc
  /\ favHist = EmptyDoc

(* ---------------- connectDB and the start of a handler ---------------- *)
\* slots are interchangeable: a new request takes the lowest free one
Free(s) == reqs[s].pc \in {"idle", "done", "hung"}

\* the middleware: the status it answers with, 0 when it calls next()
VerifyFirebaseToken(c) ==
  IF ~firebaseAppInitialized THEN 500
  ELSE IF c = NoCred THEN 401
  ELSE IF c \notin Emails THEN 403
  ELSE 0

AuthMsg(c) ==
  IF ~firebaseAppInitialized THEN Msg("Auth not configured on server")
  ELSE IF c = NoCred THEN Msg("Unauthorized")
  ELSE Msg("Forbidden")

\* slot s takes request r; the responses still shown in other slots have
\* been received by their clients and are cleared
Put(s, r) ==
  [t \in Slots |-> IF t = s THEN r ELSE IF Free(t) THEN Idle ELSE reqs[t]]

\* connectDB(), up to its await: with the handle set the caller goes on to
\* its store operation, otherwise it has called client.connect()
ConnectDB(r) ==
  IF db THEN [r EXCEPT !.pc = "ready"] ELSE [r EXCEPT !.pc = "connecting"]

\* the synchronous start of a route handler, up to its first await:
\* the ObjectId.isValid checks of v2, then connectDB()
Enter(s, r) ==
  /\ reqs' = Put(s,
       IF r.kind \in CheckedId(version) /\ ~ObjectIdIsValid(r.id)
       THEN Done(r, 400, Msg(IF r.kind = "delFav" THEN "Invalid favorite ID"
                             ELSE "Invalid artwork ID"))
       ELSE IF /\ version = "v2" /\ r.kind = "addFav"
               /\ \/ "artworkId" \notin DOMAIN r.body
                  \/ ~ObjectIdIsValid(r.body.artworkId)
       THEN Done(r, 400, Msg("Valid artwork ID is required."))
       ELSE ConnectDB(r))
  /\ UNCHANGED db

\* a request for one of the routes K arrives and Express runs the route's
\* functions up to the first await that touches shared state.
\* verifyFirebaseToken awaits admin.auth().verifyIdToken, which reads and
\* writes nothing of the server: the step commutes with every other
\* request's steps and is taken here
RequestOf(s, K) ==
  /\ Free(s)
  /\ \A s2 \in Slots : s2 < s => ~Free(s2)
  /\ \E k \in Routes(version) \cap K : \E c \in CredsFor(version, k) :
       \E i \in IdsFor(k) : \E b \in BodiesFor(version, k) :
         /\ WithinBudget(k, i)
         /\ LET r == [kind |-> k, cred |-> c, id |-> i, body |-> b,
                      pc |-> "new", status |-> 0, out |-> {}, err |-> "none"]
            IN IF k \in Protected(version) /\ VerifyFirebaseToken(c) # 0
               THEN /\ reqs' = Put(s, Done(r, VerifyFirebaseToken(c), AuthMsg(c)))
                    /\ UNCHANGED db
               ELSE Enter(s, r)
  /\ UNCHANGED <<config, store, ghost>>

AllKinds ==
  {"list", "search", "getById", "create", "update", "delete", "like",
   "addFav", "listFav", "delFav"}

\* the routes that read or write the artworks collection only
ArtworkKinds == {"list", "getById", "create", "update", "delete", "like"}

\* the routes of the favorites collection, with the two that create and
\* delete the artworks the favorites refer to
FavoriteKinds == {"create", "delete", "addFav", "listFav", "delFav"}

\* likes on artworks that no other request touches
LikeKinds == {"create", "like"}

\* creation alone
CreateKinds == {"list", "create"}

\* search, with the requests that write what it reads
SearchKinds == {"create", "update", "search"}

\* creation and deletion of artworks
DeleteKinds == {"create", "delete"}

Request(s) == RequestOf(s, AllKinds)

ArtworkRequest(s) == RequestOf(s, ArtworkKinds)

FavoriteRequest(s) == RequestOf(s, FavoriteKinds)

LikeRequest(s) == RequestOf(s, LikeKinds)

CreateRequest(s) == RequestOf(s, CreateKinds)

DeleteRequest(s) == RequestOf(s, DeleteKinds)

SearchRequest(s) == RequestOf(s, SearchKinds)

\* client.connect() settles
ClientConnect(s) ==
  /\ reqs[s].pc = "connecting"
  /\ \/ /\ db' = TRUE
        /\ reqs' = [reqs EXCEPT ![s].pc = "ready"]
     \/ /\ Throw(s, "store")
        /\ UNCHANGED db
  /\ UNCHANGED <<config, store, ghost>>

(* ---------------------------- the handlers ---------------------------- *)
\* the document POST /artworks persists
NewArtwork(v, b, c, t) ==
  CASE v = "v1" -> Merge(b, [createdAt |-> t, likes |-> 0])
    [] v = "v3" ->
         Merge(b, [createdAt |-> t, likes |-> 0,
                   visibility |-> Or(Get(b, "visibility"), "Public")])
    [] v = "v2" ->
         Merge(b, [userEmail |-> Decoded(c).email,
                   userName |-> Or(Decoded(c).name, "Anonymous"),
                   createdAt |-> t, likes |-> 0,
                   visibility |-> Or(Get(b, "visibility"), "Public"),
                   userPhotoURL |-> Or(Decoded(c).picture, Null)])

\* a faulty variant of MissingRequired: the condition without its category test
MissingRequiredNoCategory(b) ==
  \/ ~Truthy(Get(b, "title"))
  \/ ~Truthy(Get(b, "imageUrl"))

MissingRequired(b) ==
  \/ ~Truthy(Get(b, "title"))
  \/ ~Truthy(Get(b, "imageUrl"))
  \/ ~Truthy(Get(b, "category"))

\* the filter of an owner-scoped updateOne / deleteOne
OwnerFilter(v, r) ==
  IF v = "v2" THEN [_id |-> r.id, userEmail |-> Decoded(r.cred).email]
  ELSE [_id |-> r.id]

NotFound(what) ==
  IF version = "v2" THEN <<what, "not found or not owned by user">>
  ELSE <<what, "not found">>

\* a response body listing documents: the model keeps their _id
Docs(coll) == {[_id |-> i] : i \in DOMAIN coll}

\* GET /artworks
GetArtworks(s) ==
  /\ AtReady(s, "list")
  /\ \/ Reply(s, 200, Docs(artworks))
     \/ Throw(s, "store")
  /\ UNCHANGED <<config, db, store, ghost>>

\* the characters of the strings that titles, names and patterns are made of
Chars(w) ==
  CASE w = "Sun" -> <<"S", "u", "n">>
    [] w = "Moon" -> <<"M", "o", "o", "n">>
    [] w = "Alice" -> <<"A", "l", "i", "c", "e">>
    [] w = "Anonymous" -> <<"A", "n", "o", "n", "y", "m", "o", "u", "s">>
    [] w = "sun" -> <<"s", "u", "n">>
    [] w = "s.n" -> <<"s", ".", "n">>
    [] w = "oo" -> <<"o", "o">>
    [] w = "ali" -> <<"a", "l", "i">>

Words == {"Sun", "Moon", "Alice", "Anonymous", "sun", "s.n", "oo", "ali"}

\* case folding of $options: "i"
Lower(c) ==
  CASE c = "S" -> "s" [] c = "M" -> "m" [] c = "A" -> "a" [] OTHER -> c

\* { $regex: p, $options: "i" } on a field value: an unanchored match of the
\* pattern, in which "." stands for any character; only strings match
Regex(p, v) ==
  /\ v \in Words
  /\ \E off \in 0..(Len(Chars(v)) - Len(Chars(p))) :
       \A k \in 1..Len(Chars(p)) :
         \/ Chars(p)[k] = "."
         \/ Lower(Chars(p)[k]) = Lower(Chars(v)[off + k])

\* the filter GET /artworks/search builds from req.query, applied to document d
SearchMatches(v, q, d) ==
  LET category == Get(q, "category")
      title == Get(q, "title")
      userName == Get(q, "userName")
      userEmail == Get(q, "userEmail") IN
  IF v = "v2"
  THEN /\ Get(d, "visibility") = "Public"
       /\ Truthy(category) => Get(d, "category") = category
       /\ (Truthy(title) \/ Truthy(userName)) =>
            \/ Truthy(title) /\ Regex(title, Get(d, "title"))
            \/ Truthy(userName) /\ Regex(userName, Get(d, "userName"))
  ELSE /\ Truthy(category) => Get(d, "category") = category
       /\ Truthy(userEmail) => Get(d, "userEmail") = userEmail
       /\ Truthy(title) => Regex(title, Get(d, "title"))
       /\ Truthy(userName) => Regex(userName, Get(d, "userName"))

\* GET /artworks/search
SearchArtworks(s) ==
  /\ AtReady(s, "search")
  /\ \/ Reply(s, 200,
            {[_id |-> i] : i \in {j \in DOMAIN artworks :
                                    SearchMatches(version, reqs[s].body, artworks[j])}})
     \/ Throw(s, "store")
  /\ UNCHANGED <<config, db, store, ghost>>

\* GET /artworks/:id
GetArtworkById(s) ==
  /\ AtReady(s, "getById")
  /\ \/ IF reqs[s].id \in DOMAIN artworks
        THEN Reply(s, 200, Docs([i \in {reqs[s].id} |-> artworks[i]]))
        ELSE Reply(s, 404, Msg("Artwork not found"))
     \/ Throw(s, "store")
  /\ UNCHANGED <<config, db, store, ghost>>

\* POST /artworks
PostArtworks(s) ==
  /\ AtReady(s, "create")
  /\ LET r == reqs[s] IN
     IF MissingRequired(r.body)
     THEN /\ Reply(s, 400, Msg(IF version = "v1" THEN "Missing required fields"
                               ELSE "Title, image URL, and category are required."))
          /\ UNCHANGED <<store, ghost>>
     ELSE \/ /\ Throw(s, "store")
             /\ UNCHANGED <<store, ghost>>
          \/ \E t \in {Now} :
               LET doc == NewArtwork(version, r.body, r.cred, t) IN
               /\ artworks' = artworks @@ (nextArt :> doc)
               /\ nextArt' = nextArt + 1
               /\ hist' = hist @@ (nextArt :> [doc |-> doc, liked |-> 0, base |-> 0])
               /\ Reply(s, 201, {[id |-> nextArt]})
               /\ UNCHANGED <<favorites, nextFav, favHist>>
  /\ UNCHANGED <<config, db>>

\* PUT /artworks/:id
PutArtwork(s) ==
  /\ AtReady(s, "update")
  /\ LET r == reqs[s]
         q == OwnerFilter(version, r) IN
     IF r.kind \in UncheckedId(version) /\ ~ObjectIdIsValid(r.id)
     THEN Throw(s, "bson") /\ UNCHANGED <<store, ghost>>
     ELSE \/ /\ Throw(s, "store")
             /\ UNCHANGED <<store, ghost>>
          \/ /\ artworks' = SetOne(artworks, q, r.body)
             /\ IF Find(artworks, q) = {}
                THEN /\ Reply(s, 404, Msg(NotFound("Artwork")))
                     /\ UNCHANGED hist
                ELSE /\ Reply(s, 200, {[ok |-> TRUE]})
                     /\ hist' = IF "likes" \in DOMAIN r.body
                                THEN [hist EXCEPT ![r.id].base = r.body.likes - hist[r.id].liked]
                                ELSE hist
             /\ UNCHANGED <<favorites, nextArt, nextFav, favHist>>
  /\ UNCHANGED <<config, db>>

\* DELETE /artworks/:id
DeleteArtwork(s) ==
  /\ AtReady(s, "delete")
  /\ LET r == reqs[s]
         q == OwnerFilter(version, r) IN
     IF r.kind \in UncheckedId(version) /\ ~ObjectIdIsValid(r.id)
     THEN Throw(s, "bson") /\ UNCHANGED <<store, ghost>>
     ELSE \/ /\ Throw(s, "store")
             /\ UNCHANGED <<store, ghost>>
          \/ /\ artworks' = DeleteOne(artworks, q)
             /\ IF Find(artworks, q) = {}
                THEN /\ Reply(s, 404, Msg(NotFound("Artwork")))
                     /\ UNCHANGED hist
                ELSE /\ Reply(s, 200, {[ok |-> TRUE]})
                     /\ hist' = Remove(hist, r.id)
             /\ UNCHANGED <<favorites, nextArt, nextFav, favHist>>
  /\ UNCHANGED <<config, db>>

\* PATCH /artworks/:id/like
PatchLike(s) ==
  /\ AtReady(s, "like")
  /\ LET r == reqs[s]
         q == [_id |-> r.id] IN
     IF r.kind \in UncheckedId(version) /\ ~ObjectIdIsValid(r.id)
     THEN Throw(s, "bson") /\ UNCHANGED <<store, ghost>>
     ELSE \/ /\ Throw(s, "store")
             /\ UNCHANGED <<store, ghost>>
          \/ /\ artworks' = IncOne(artworks, q)
             /\ IF Find(artworks, q) = {}
                THEN /\ Reply(s, 404, Msg("Artwork not found"))
                     /\ UNCHANGED hist
                ELSE /\ Reply(s, 200, Msg("Liked!"))
                     /\ hist' = [hist EXCEPT ![r.id].liked = @ + 1]
             /\ UNCHANGED <<favorites, nextArt, nextFav, favHist>>
  /\ UNCHANGED <<config, db>>

\* the document POST /favorites persists
NewFavorite(v, b, c, t) ==
  [artworkId |-> b.artworkId,
   userEmail |-> IF v = "v2" THEN Decoded(c).email ELSE b.userEmail,
   addedAt |-> t]

\* POST /favorites
PostFavorites(s) ==
  /\ AtReady(s, "addFav")
  /\ LET r == reqs[s] IN
     IF /\ version = "v3"
        /\ ("artworkId" \notin DOMAIN r.body \/ ~Truthy(Get(r.body, "userEmail")))
     THEN /\ Reply(s, 400, Msg("Artwork ID and user email are required."))
          /\ UNCHANGED <<store, ghost>>
     ELSE IF version = "v3" /\ ~ObjectIdIsValid(r.body.artworkId)
     THEN Throw(s, "bson") /\ UNCHANGED <<store, ghost>>
     ELSE \/ /\ Throw(s, "store")
             /\ UNCHANGED <<store, ghost>>
          \/ \E t \in {Now} :
               /\ favorites' = favorites @@
                                 (nextFav :> NewFavorite(version, r.body, r.cred, t))
               /\ nextFav' = nextFav + 1
               /\ favHist' = favHist @@ (nextFav :> (r.body.artworkId \in DOMAIN artworks))
               /\ Reply(s, 201, {[id |-> nextFav]})
               /\ UNCHANGED <<artworks, nextArt, hist>>
  /\ UNCHANGED <<config, db>>

\* { $lookup: from artworks, localField artworkId, foreignField _id, as artwork }
Lookup(f) == [f EXCEPT !.artwork = Docs([i \in DOMAIN artworks \cap {f.artworkId} |-> artworks[i]])]

\* a faulty variant of Unwind: $unwind with preserveNullAndEmptyArrays, a favorite
\* whose lookup found nothing is kept
UnwindPreserve(F) ==
  UNION {{[f EXCEPT !.artwork = a] : a \in f.artwork} : f \in F}
  \cup {f \in F : f.artwork = {}}

\* { $unwind: "$artwork" }: one output per element of the array, none when empty
Unwind(F) == UNION {{[f EXCEPT !.artwork = a] : a \in f.artwork} : f \in F}

\* the pipeline of GET /favorites for the e-mail it matches on
FavoritesOf(e) ==
  LET matched == {[_id |-> i, artworkId |-> favorites[i].artworkId,
                    userEmail |-> favorites[i].userEmail, artwork |-> {}] :
                    i \in Find(favorites, [userEmail |-> e])}
  IN Unwind({Lookup(f) : f \in matched})

\* GET /favorites
GetFavorites(s) ==
  /\ AtReady(s, "listFav")
  /\ LET r == reqs[s]
         e == IF version = "v2" THEN Decoded(r.cred).email
              ELSE Get(r.body, "userEmail") IN
     \/ Reply(s, 200, FavoritesOf(e))
     \/ Throw(s, "store")
  /\ UNCHANGED <<config, db, store, ghost>>

\* DELETE /favorites/:id
DeleteFavorite(s) ==
  /\ AtReady(s, "delFav")
  /\ LET r == reqs[s]
         q == OwnerFilter(version, r) IN
     IF r.kind \in UncheckedId(version) /\ ~ObjectIdIsValid(r.id)
     THEN Throw(s, "bson") /\ UNCHANGED <<store, ghost>>
     ELSE \/ /\ Throw(s, "store")
             /\ UNCHANGED <<store, ghost>>
          \/ /\ favorites' = DeleteOne(favorites, q)
             /\ IF Find(favorites, q) = {}
                THEN /\ Reply(s, 404, Msg(NotFound("Favorite")))
                     /\ UNCHANGED favHist
                ELSE /\ Reply(s, 200, {[ok |-> TRUE]})
                     /\ favHist' = Remove(favHist, r.id)
             /\ UNCHANGED <<artworks, nextArt, nextFav, hist>>
  /\ UNCHANGED <<config, db>>

(* ------------------------------- Next --------------------------------- *)
Next ==
  \E s \in Slots :
    \/ Request(s)
    \/ ClientConnect(s)
    \/ GetArtworks(s)
    \/ SearchArtworks(s)
    \/ GetArtworkById(s)
    \/ PostArtworks(s)
    \/ PutArtwork(s)
    \/ DeleteArtwork(s)
    \/ PatchLike(s)
    \/ PostFavorites(s)
    \/ GetFavorites(s)
    \/ DeleteFavorite(s)

Spec == Init /\ [][Next]_vars

\* the requests on the artworks collection alone
NextArtworks ==
  \E s \in Slots :
    \/ ArtworkRequest(s)
    \/ ClientConnect(s)
    \/ GetArtworks(s)
    \/ GetArtworkById(s)
    \/ PostArtworks(s)
    \/ PutArtwork(s)
    \/ DeleteArtwork(s)
    \/ PatchLike(s)

SpecArtworks == Init /\ [][NextArtworks]_vars

\* the versions that have likes and favorites, and the requests that bear
\* on favorites
InitFavorites == Init /\ version \in {"v2", "v3"}

NextFavorites ==
  \E s \in Slots :
    \/ FavoriteRequest(s)
    \/ ClientConnect(s)
    \/ PostArtworks(s)
    \/ DeleteArtwork(s)
    \/ PostFavorites(s)
    \/ GetFavorites(s)
    \/ DeleteFavorite(s)

SpecFavorites == InitFavorites /\ [][NextFavorites]_vars

\* concurrent likes on artworks that nothing else touches
NextLikes ==
  \E s \in Slots :
    \/ LikeRequest(s)
    \/ ClientConnect(s)
    \/ PostArtworks(s)
    \/ PatchLike(s)

SpecLikes == InitFavorites /\ [][NextLikes]_vars

\* creation requests
NextCreate ==
  \E s \in Slots :
    \/ CreateRequest(s)
    \/ ClientConnect(s)
    \/ GetArtworks(s)
    \/ PostArtworks(s)

SpecCreate == Init /\ [][NextCreate]_vars

\* deletions, with the creations that give them something to delete
NextDelete ==
  \E s \in Slots :
    \/ DeleteRequest(s)
    \/ ClientConnect(s)
    \/ PostArtworks(s)
    \/ DeleteArtwork(s)

SpecDelete == Init /\ [][NextDelete]_vars

\* search on the two listings that have it, with creation and update
NextSearch ==
  \E s \in Slots :
    \/ SearchRequest(s)
    \/ ClientConnect(s)
    \/ PostArtworks(s)
    \/ PutArtwork(s)
    \/ SearchArtworks(s)

SpecSearch == InitFavorites /\ [][NextSearch]_vars

(* ----------------------------- properties ----------------------------- *)
\* slot s is answered, or given up by Express, in this step
Finishes(s) == reqs'[s] # reqs[s] /\ reqs'[s].pc \in {"done", "hung"}

\* the store operation of slot s runs in this step and its handler answers
Executes(s) ==
  reqs[s].pc = "ready" /\ reqs'[s].pc = "done" /\ reqs'[s].err = "none"

\* the collection an owner-scoped mutation works on
Target(r) == IF r.kind = "delFav" THEN favorites ELSE artworks

\* C1: an owner-scoped mutation (PUT /artworks/:id, DELETE /artworks/:id,
\* DELETE /favorites/:id) by a requester whose verified e-mail differs from
\* the stored userEmail of the target is answered 404 and changes nothing.
C1_NonOwnerRefused ==
  [][\A s \in Slots :
       ( /\ Executes(s)
         /\ reqs[s].kind \in {"update", "delete", "delFav"}
         /\ reqs[s].cred \in Emails
         /\ reqs[s].id \in DOMAIN Target(reqs[s])
         /\ Get(Target(reqs[s])[reqs[s].id], "userEmail") # reqs[s].cred )
       => ( /\ reqs'[s].status = 404
            /\ artworks' = artworks
            /\ favorites' = favorites )]_vars

\* C2: the document a successful POST /artworks persists carries the e-mail
\* of the request's verified principal as userEmail, whatever the body said.
C2_OwnerFromPrincipal ==
  [][\A s \in Slots :
       (AtReady(s, "create") /\ reqs'[s].status = 201)
       => ( /\ reqs[s].cred \in Emails
            /\ Get(artworks'[nextArt], "userEmail") = reqs[s].cred )]_vars

\* C3: every stored artwork has the userEmail and createdAt the server gave
\* it at creation, and its likes are the number of successful like requests
\* on it (never below 0).
C3_ProtectedFields ==
  \A i \in DOMAIN artworks :
    /\ Get(artworks[i], "userEmail") = Get(hist[i].doc, "userEmail")
    /\ artworks[i].createdAt = hist[i].doc.createdAt
    /\ artworks[i].likes = hist[i].liked
    /\ artworks[i].likes >= 0

\* C4: the likes of an artwork are what the last other write left plus the
\* number of like requests answered 200 since: with nothing else touching the
\* artwork, N concurrent likes raise it by exactly N.
C4_LikesAdditive ==
  \A i \in DOMAIN artworks :
    artworks[i].likes = hist[i].base + hist[i].liked

\* every slot holds a like of the same artwork, taken while the others were
\* in flight, all answered 200, and the artwork counts them all
C4_Witness ==
  \E i \in DOMAIN artworks :
    /\ \A s \in Slots :
         /\ reqs[s].kind = "like" /\ reqs[s].id = i
         /\ reqs[s].pc = "done" /\ reqs[s].status = 200
    /\ artworks[i].likes = MaxInFlight

\* C5: a request to a private endpoint without a credential is answered 401,
\* one with a credential that fails verification 403, and in both cases the
\* handler does not run.
C5_AuthRequired ==
  \A s \in Slots :
    (reqs[s].kind \in PrivateKinds)
    => /\ reqs[s].cred = NoCred => (reqs[s].pc = "done" /\ reqs[s].status = 401)
       /\ reqs[s].cred = BadCred => (reqs[s].pc = "done" /\ reqs[s].status = 403)

\* a body without a usable title, imageUrl or category
LacksField(b) ==
  \E f \in {"title", "imageUrl", "category"} : Get(b, f) \in {Undefined, Null, ""}

\* C6 (as stated): every POST /artworks whose body lacks title, imageUrl or
\* category is answered 400 and persists nothing.
C6_MissingFieldIs400 ==
  [][\A s \in Slots :
       ( /\ Finishes(s)
         /\ reqs'[s].kind = "create"
         /\ LacksField(reqs'[s].body) )
       => (reqs'[s].status = 400 /\ artworks' = artworks)]_vars

\* C6 (amended): a POST /artworks whose body lacks title, imageUrl or
\* category persists nothing and is never answered 201; it is answered 400
\* when its handler, past the middleware of its route and connectDB, comes
\* to the test of the fields.
C6_MissingFieldRejected ==
  [][\A s \in Slots :
       ( /\ Finishes(s)
         /\ reqs'[s].kind = "create"
         /\ LacksField(reqs'[s].body) )
       => ( /\ artworks' = artworks
            /\ reqs'[s].status # 201
            /\ reqs[s].pc = "ready" => reqs'[s].status = 400 )]_vars

\* a creation request lacking a required field has been answered 400
C6_Witness ==
  \E s \in Slots :
    /\ reqs[s].kind = "create" /\ LacksField(reqs[s].body)
    /\ reqs[s].pc = "done" /\ reqs[s].status = 400

\* C7: a request to an endpoint with an identifier in its path whose
\* identifier does not parse is answered 400, with or without a credential.
C7_InvalidIdIs400 ==
  \A s \in Slots :
    ( /\ reqs[s].kind \in {"getById", "update", "delete", "like", "delFav"}
      /\ ~ObjectIdIsValid(reqs[s].id)
      /\ Free(s) )
    => (reqs[s].pc = "done" /\ reqs[s].status = 400)

\* C8: every Favorite referred to an Artwork that existed when the Favorite
\* was inserted.
C8_FavoriteOfExisting == \A f \in DOMAIN favorites : favHist[f]

\* the e-mail whose favorites GET /favorites is asked for
Asker(r) ==
  IF version = "v2" THEN Decoded(r.cred).email ELSE Get(r.body, "userEmail")

\* C9: GET /favorites answers with favorites of the asking user only, each
\* with an Artwork that exists in the store at that moment; deleting an
\* Artwork leaves the favorites collection as it is.
C9_NoOrphansListed ==
  [][\A s \in Slots :
       /\ (AtReady(s, "listFav") /\ reqs'[s].status = 200)
          => \A x \in reqs'[s].out :
               /\ x.userEmail = Asker(reqs[s])
               /\ x._id \in DOMAIN favorites'
               /\ x.artworkId \in DOMAIN artworks'
               /\ x.artwork = [_id |-> x.artworkId]
       /\ (AtReady(s, "delete") /\ Finishes(s)) => favorites' = favorites]_vars

\* a user whose favorite outlived its artwork was answered an empty list
C9_Witness ==
  \E s \in Slots : \E f \in DOMAIN favorites :
    /\ reqs[s].kind = "listFav" /\ reqs[s].pc = "done"
    /\ reqs[s].status = 200 /\ reqs[s].out = {}
    /\ favorites[f].userEmail = Asker(reqs[s])
    /\ favHist[f]
    /\ favorites[f].artworkId \notin DOMAIN artworks

\* C10: no request is left unanswered, and one that met a store failure is
\* answered 500 with the generic message.
C10_FailureIs500 ==
  \A s \in Slots :
    /\ reqs[s].pc # "hung"
    /\ reqs[s].err = "store"
       => /\ reqs[s].pc = "done"
          /\ reqs[s].status = 500
          /\ reqs[s].out = Msg("Internal Server Error")

\* artwork i was created and a DELETE /artworks/i has been answered 200;
\* the store never assigns its identifier again
Deleted(i) == i \in 1..(nextArt - 1) /\ i \notin DOMAIN hist

\* C11 (as stated): after a DELETE /artworks/:id answered 200, every later
\* DELETE of the same id is answered 404 and leaves the store unchanged.
C11_RepeatedDeleteIs404 ==
  [][\A s \in Slots :
       ( /\ Finishes(s)
         /\ reqs'[s].kind = "delete"
         /\ Deleted(reqs'[s].id) )
       => ( /\ reqs'[s].status = 404
            /\ artworks' = artworks
            /\ favorites' = favorites )]_vars

\* C11 (amended): after a DELETE /artworks/:id answered 200, no later DELETE
\* of the same id is answered 200 or changes the store, and every one whose
\* deleteOne runs and returns is answered 404.
C11_DeleteNotRepeatable ==
  [][\A s \in Slots :
       ( /\ Finishes(s)
         /\ reqs'[s].kind = "delete"
         /\ Deleted(reqs'[s].id) )
       => ( /\ reqs'[s].status # 200
            /\ artworks' = artworks
            /\ favorites' = favorites
            /\ Executes(s) => reqs'[s].status = 404 )]_vars

\* two DELETEs of one artwork by the same requester: one was answered 200,
\* the other, which ran after it, 404
C11_Witness ==
  \E s, t \in Slots :
    /\ reqs[s].kind = "delete" /\ reqs[t].kind = "delete"
    /\ reqs[s].id = reqs[t].id /\ reqs[s].cred = reqs[t].cred
    /\ reqs[s].pc = "done" /\ reqs[s].status = 200
    /\ reqs[t].pc = "done" /\ reqs[t].status = 404
    /\ Deleted(reqs[s].id)

\* p occurs in v as a substring, letter case apart
Contains(p, v) ==
  /\ v \in Words
  /\ \E off \in 0..(Len(Chars(v)) - Len(Chars(p))) :
       \A k \in 1..Len(Chars(p)) :
         Lower(Chars(p)[k]) = Lower(Chars(v)[off + k])

\* the artworks a search with query string q is to return
Wanted(q) ==
  {i \in DOMAIN artworks :
     /\ Get(artworks[i], "visibility") = "Public"
     /\ "category" \in DOMAIN q => Get(artworks[i], "category") = q.category
     /\ ("title" \in DOMAIN q \/ "userName" \in DOMAIN q) =>
          \/ "title" \in DOMAIN q /\ Contains(q.title, Get(artworks[i], "title"))
          \/ "userName" \in DOMAIN q
               /\ Contains(q.userName, Get(artworks[i], "userName"))}

\* C12: GET /artworks/search answers with exactly the stored artworks that
\* are Public, have the category asked for when one is given, and contain one
\* of the given title / userName parameters as a case-insensitive substring
\* of their title or userName when any is given.
C12_SearchExact ==
  [][\A s \in Slots :
       (AtReady(s, "search") /\ reqs'[s].status = 200)
       => reqs'[s].out = {[_id |-> i] : i \in Wanted(reqs[s].body)}]_vars

\* the requests that have each called client.connect() and await it
Connecting == {s \in Slots : reqs[s].pc = "connecting"}

\* C13: client.connect() is invoked at most once per process: no two requests
\* are ever both waiting for a client.connect() of their own.
C13_ConnectOnce == Cardinality(Connecting) <= 1

====
